---------------------------- MODULE Spec2Model ----------------------------
(***************************************************************************)
(* A model of app/code_output_comparison.py: the output comparator         *)
(* enhanced_output_comparison with its three strategies (exact, JSON,      *)
(* line by line with decimal tolerance) and its helpers truncate_output,   *)
(* convert_line_to_decimals, get_stripped_lines and try_json_comparison.   *)
(*                                                                         *)
(* A Python str is a sequence of one-character strings.  The library       *)
(* functions the module calls (str.strip, str.split, decimal.Decimal,      *)
(* json.loads, float, numpy.allclose) are modelled by what they do on the  *)
(* characters of Alphabet.                                                 *)
(***************************************************************************)
EXTENDS Integers, Sequences, FiniteSets, TLC

VARIABLES
    prediction,     \* argument of the current call (a str)
    expected,       \* argument of the current call (a str)
    logger,         \* TRUE iff a diagnostic sink was supplied to the call
    np_available,   \* TRUE iff "import numpy" succeeds in this interpreter
    pc,             \* position of the current call
    line_idx,       \* loop variable of the line by line strategy
    json_error,     \* second component returned by try_json_comparison
    result,         \* the pair returned to the caller, or NoReturn
    raised,         \* the exception that escaped to the caller, or NoExc
    pending,        \* the exception caught by the handler of line 127
    trace,          \* strategies attempted by the current call, in order
    examined,       \* line indices whose pair the current call compared
    sink,           \* warnings the sink recorded during the current call
    first,          \* result of the first call made with these arguments
    t_s,            \* argument s of a truncate_output call
    t_length,       \* argument length of that call
    t_out,          \* what truncate_output returned
    t_pc            \* position of the truncate_output call

vars == <<prediction, expected, logger, np_available, pc, line_idx,
          json_error, result, raised, pending, trace, examined, sink,
          first, t_s, t_length, t_out, t_pc>>

cmpVars == <<prediction, expected, logger, np_available, pc, line_idx,
             json_error, result, raised, pending, trace, examined, sink,
             first>>

truncVars == <<t_s, t_length, t_out, t_pc>>

-----------------------------------------------------------------------------
(* Bounds of the model.                                                    *)

\* Longest line fed to the comparator (longer than the truncation
\* threshold plus the marker, so that truncation shortens it).
LongLen == 340

\* Line count of the longest multi-line input (two-digit line numbers).
MaxLines == 11

\* Deepest nesting of the JSON arrays among the inputs.
MaxNest == 3

\* Nesting depth at which json.loads exhausts the interpreter's recursion
\* limit (sys.getrecursionlimit() in CPython, scaled down).
RecursionLimit == 2

\* Longest value and largest small threshold given to truncate_output.
MaxValLen == 330
MaxThreshold == 6

-----------------------------------------------------------------------------
(* Characters and Python's str primitives.                                 *)

Digits == <<"0", "1", "2", "3", "4", "5", "6", "7", "8", "9">>

DigitSet == {Digits[i] : i \in 1..10}

Whitespace == {" ", "\n"}

Alphabet == DigitSet \cup Whitespace \cup {".", "[", "]", ",", "a", "b", "s", "N"}

Max(a, b) == IF a >= b THEN a ELSE b

Min(a, b) == IF a <= b THEN a ELSE b

Abs(a) == IF a >= 0 THEN a ELSE -a

\* s[:k] of Python, for any integer k.
PySliceTo(s, k) ==
    LET stop == IF k < 0 THEN Max(Len(s) + k, 0) ELSE Min(k, Len(s))
    IN  SubSeq(s, 1, stop)

\* s[m:] of Python, for any integer m.
PySliceFrom(s, m) ==
    LET start == IF m < 0 THEN Max(Len(s) + m, 0) ELSE Min(m, Len(s))
    IN  SubSeq(s, start + 1, Len(s))

\* a // b of Python (floor division), b > 0.
FloorDiv(a, b) == IF a >= 0 THEN a \div b ELSE -((-a + b - 1) \div b)

\* str.strip(): drop leading and trailing whitespace.
Strip(s) ==
    IF \A i \in 1..Len(s) : s[i] \in Whitespace THEN <<>>
    ELSE LET lo == CHOOSE i \in 1..Len(s) :
                       /\ s[i] \notin Whitespace
                       /\ \A j \in 1..(i - 1) : s[j] \in Whitespace
             hi == CHOOSE i \in 1..Len(s) :
                       /\ s[i] \notin Whitespace
                       /\ \A j \in (i + 1)..Len(s) : s[j] \in Whitespace
         IN  SubSeq(s, lo, hi)

\* str.split("\n"): the pieces between newlines (one piece more than there
\* are newlines; the pieces may be empty).
SplitNewline(s) ==
    LET nl == {i \in 1..Len(s) : s[i] = "\n"}
        cuts == nl \cup {0, Len(s) + 1}
        Nth[k \in 1..(Cardinality(nl) + 2)] ==
            CHOOSE c \in cuts : Cardinality({d \in cuts : d < c}) = k - 1
    IN  [k \in 1..(Cardinality(nl) + 1) |-> SubSeq(s, Nth[k] + 1, Nth[k + 1] - 1)]

\* str.split(): the maximal runs of non-whitespace characters.
SplitWhitespace(s) ==
    LET starts == {i \in 1..Len(s) : s[i] \notin Whitespace
                                      /\ (i = 1 \/ s[i - 1] \in Whitespace)}
        EndOf(i) == CHOOSE j \in i..Len(s) :
                        /\ (j = Len(s) \/ s[j + 1] \in Whitespace)
                        /\ \A k \in i..j : s[k] \notin Whitespace
        Nth[k \in 1..Cardinality(starts)] ==
            CHOOSE c \in starts : Cardinality({d \in starts : d < c}) = k - 1
    IN  [k \in 1..Cardinality(starts) |-> SubSeq(s, Nth[k], EndOf(Nth[k]))]

\* str(n) of a non-negative int.
RECURSIVE IntToStr(_)
IntToStr(n) ==
    IF n < 10 THEN <<Digits[n + 1]>>
    ELSE IntToStr(n \div 10) \o <<Digits[(n % 10) + 1]>>

\* A value handed to truncate_output: a str, or an int (anything else that
\* str() renders).
StrVal(s) == [isstr |-> TRUE, str |-> s]

IntVal(n) == [isstr |-> FALSE, int |-> n]

PyStr(v) == IF v.isstr THEN v.str ELSE IntToStr(v.int)

-----------------------------------------------------------------------------
(* truncate_output                                                         *)

DefaultLength == 300

Marker ==
    <<".", ".", ".", "(", "t", "r", "u", "n", "c", "a", "t", "e", "d", ")", 
      " ", ".", ".", ".">>

\* truncate_output without its truncation: the value comes back whole.
truncate_output_whole(v, length) == PyStr(v)

\* truncate_output with "<" for the "<=" of line 10.
truncate_output_strict(v, length) ==
    LET s == PyStr(v)
    IN  IF Len(s) < length THEN s
        ELSE PySliceTo(s, FloorDiv(length, 2)) \o Marker
                 \o PySliceFrom(s, FloorDiv(-length, 2))

truncate_output(v, length) ==
    LET s == PyStr(v)
    IN  IF Len(s) <= length THEN s
        ELSE PySliceTo(s, FloorDiv(length, 2)) \o Marker
                 \o PySliceFrom(s, FloorDiv(-length, 2))

-----------------------------------------------------------------------------
(* decimal.Decimal, float and numpy.allclose                               *)

IsDigits(s) == \A i \in 1..Len(s) : s[i] \in DigitSet

DigitValue(c) == (CHOOSE i \in 1..10 : Digits[i] = c) - 1

\* int() of a digit string ("" is 0).
RECURSIVE DigitsToInt(_)
DigitsToInt(s) ==
    IF s = <<>> THEN 0
    ELSE 10 * DigitsToInt(SubSeq(s, 1, Len(s) - 1)) + DigitValue(s[Len(s)])

RECURSIVE Pow10(_)
Pow10(n) == IF n = 0 THEN 1 ELSE 10 * Pow10(n - 1)

NaNText == <<"N", "a", "N">>

SNaNText == <<"s", "N", "a", "N">>

HasPrefix(s, p) == Len(s) >= Len(p) /\ SubSeq(s, 1, Len(p)) = p

\* Decimal(tok) for a token of Alphabet characters: digits with at most one
\* point and at least one digit, or NaN or sNaN with optional payload
\* digits.  (Signs, exponents and Infinity need characters outside
\* Alphabet.)  ok = FALSE stands for decimal.InvalidOperation.
Decimal(tok) ==
    LET dots == {i \in 1..Len(tok) : tok[i] = "."}
    IN  IF HasPrefix(tok, NaNText) /\ IsDigits(SubSeq(tok, 4, Len(tok)))
          THEN [ok |-> TRUE, kind |-> "NaN", coef |-> 0, scale |-> 0]
        ELSE IF HasPrefix(tok, SNaNText) /\ IsDigits(SubSeq(tok, 5, Len(tok)))
          THEN [ok |-> TRUE, kind |-> "sNaN", coef |-> 0, scale |-> 0]
        ELSE IF dots = {} /\ Len(tok) >= 1 /\ IsDigits(tok)
          THEN [ok |-> TRUE, kind |-> "num", coef |-> DigitsToInt(tok), scale |-> 0]
        ELSE IF Cardinality(dots) = 1 /\ Len(tok) >= 2
          THEN LET d == CHOOSE i \in dots : TRUE
                   int == SubSeq(tok, 1, d - 1)
                   frac == SubSeq(tok, d + 1, Len(tok))
               IN  IF IsDigits(int) /\ IsDigits(frac)
                     THEN [ok |-> TRUE, kind |-> "num",
                           coef |-> DigitsToInt(int \o frac), scale |-> Len(frac)]
                     ELSE [ok |-> FALSE, kind |-> "", coef |-> 0, scale |-> 0]
        ELSE [ok |-> FALSE, kind |-> "", coef |-> 0, scale |-> 0]

\* Lines 15-21: (False, []) as soon as one token is no Decimal.
convert_line_to_decimals(line) ==
    LET toks == SplitWhitespace(line)
    IN  IF \E i \in 1..Len(toks) : ~Decimal(toks[i]).ok
          THEN [success |-> FALSE, decimals |-> <<>>]
          ELSE [success |-> TRUE,
                decimals |-> [i \in 1..Len(toks) |-> Decimal(toks[i])]]

\* The two numbers x and y brought to one scale.
Scaled(x, y) ==
    LET s == Max(x.scale, y.scale)
    IN  [a |-> x.coef * Pow10(s - x.scale), b |-> y.coef * Pow10(s - y.scale),
         scale |-> s]

\* Decimal.__eq__: a signaling NaN on either side raises InvalidOperation,
\* a quiet NaN equals nothing, numbers are compared by value.
DecimalEq(x, y) ==
    IF x.kind = "sNaN" \/ y.kind = "sNaN" THEN "raise"
    ELSE IF x.kind = "NaN" \/ y.kind = "NaN" THEN "false"
    ELSE IF Scaled(x, y).a = Scaled(x, y).b THEN "true" ELSE "false"

\* list.__eq__ on two lists of Decimal (line 105): lists of different
\* length are unequal without any element comparison; otherwise elements
\* are compared from the left up to the first unequal pair.
DecimalListEq(xs, ys) ==
    IF Len(xs) # Len(ys) THEN "false"
    ELSE LET stop == {i \in 1..Len(xs) : DecimalEq(xs[i], ys[i]) # "true"}
         IN  IF stop = {} THEN "true"
             ELSE LET k == CHOOSE i \in stop : \A j \in stop : i <= j
                  IN  DecimalEq(xs[k], ys[k])

\* float(d) (lines 111-112): ValueError for a signaling NaN.  The doubles
\* of the model's numbers (at most nine significant digits) are kept by
\* their decimal value.
Float(d) ==
    IF d.kind = "sNaN" THEN [ok |-> FALSE, nan |-> FALSE, coef |-> 0, scale |-> 0]
    ELSE IF d.kind = "NaN" THEN [ok |-> TRUE, nan |-> TRUE, coef |-> 0, scale |-> 0]
    ELSE [ok |-> TRUE, nan |-> FALSE, coef |-> d.coef, scale |-> d.scale]

\* numpy's default tolerances: rtol = 10^-RtolDigits, atol = 10^-AtolDigits.
RtolDigits == 5

AtolDigits == 8

\* numpy.isclose(a, b): |a - b| <= atol + rtol * |b|, never for a nan.
\* Both sides are multiplied by 10^(scale + RtolDigits); the model's
\* numbers stay below 10^9.
IsClose(x, y) ==
    IF x.nan \/ y.nan THEN FALSE
    ELSE LET k == AtolDigits - RtolDigits
             s == Max(Max(x.scale, y.scale), k)
             a == x.coef * Pow10(s - x.scale)
             b == y.coef * Pow10(s - y.scale)
             d == Abs(a - b)
         IN  /\ d < Pow10(9 - RtolDigits)
             /\ d * Pow10(RtolDigits) <= Pow10(s - k) + Abs(b)

\* numpy.allclose on two lists of equal length.
AllClose(xs, ys) == \A i \in 1..Len(xs) : IsClose(xs[i], ys[i])

-----------------------------------------------------------------------------
(* json.loads and the comparison of the parsed values                      *)

\* First index at or after i that holds no whitespace (Len(s) + 1 if none).
SkipWs(s, i) ==
    CHOOSE j \in i..(Len(s) + 1) :
        /\ (j = Len(s) + 1 \/ s[j] \notin Whitespace)
        /\ \A k \in i..(j - 1) : s[k] \in Whitespace

\* Index after the longest run of digits starting at i.
DigitsEnd(s, i) ==
    CHOOSE j \in i..(Len(s) + 1) :
        /\ (j = Len(s) + 1 \/ s[j] \notin DigitSet)
        /\ \A k \in i..(j - 1) : s[k] \in DigitSet

JsonErr == [st |-> "err"]

JsonRec == [st |-> "rec"]

\* json's NUMBER_RE at a digit: 0 or a run of digits without leading zero,
\* then a fraction if a point and a digit follow.  A number with a fraction
\* is a float, one without is an int.
JsonNumber(s, i) ==
    LET ie == IF s[i] = "0" THEN i + 1 ELSE DigitsEnd(s, i)
        hasFrac == ie + 1 <= Len(s) /\ s[ie] = "." /\ s[ie + 1] \in DigitSet
        fe == IF hasFrac THEN DigitsEnd(s, ie + 1) ELSE ie
        int == SubSeq(s, i, ie - 1)
        frac == SubSeq(s, ie + 1, fe - 1)
    IN  [st |-> "ok", next |-> fe,
         val |-> IF hasFrac
                   THEN [t |-> "float", coef |-> DigitsToInt(int \o frac),
                         scale |-> Len(frac)]
                   ELSE [t |-> "int", coef |-> DigitsToInt(int), scale |-> 0]]

\* The scanner of json.loads at index i of s, inside depth arrays: a value
\* and the index after it, "err" for json.JSONDecodeError, "rec" for the
\* RecursionError of an array nested deeper than RecursionLimit.
RECURSIVE JsonValue(_, _, _), JsonElems(_, _, _, _)
JsonValue(s, i, depth) ==
    IF i > Len(s) THEN JsonErr
    ELSE IF s[i] = "[" THEN
        IF depth + 1 > RecursionLimit THEN JsonRec
        ELSE LET j == SkipWs(s, i + 1)
             IN  IF j <= Len(s) /\ s[j] = "]"
                   THEN [st |-> "ok", next |-> j + 1,
                         val |-> [t |-> "list", items |-> <<>>]]
                   ELSE JsonElems(s, j, depth + 1, <<>>)
    ELSE IF s[i] \in DigitSet THEN JsonNumber(s, i)
    ELSE IF HasPrefix(SubSeq(s, i, Len(s)), NaNText)
      THEN [st |-> "ok", next |-> i + 3, val |-> [t |-> "nan"]]
    ELSE JsonErr

JsonElems(s, i, depth, acc) ==
    LET v == JsonValue(s, i, depth)
    IN  IF v.st # "ok" THEN v
        ELSE LET k == SkipWs(s, v.next)
                 items == Append(acc, v.val)
             IN  IF k > Len(s) THEN JsonErr
                 ELSE IF s[k] = "]"
                   THEN [st |-> "ok", next |-> k + 1,
                         val |-> [t |-> "list", items |-> items]]
                 ELSE IF s[k] = ","
                   THEN JsonElems(s, SkipWs(s, k + 1), depth, items)
                 ELSE JsonErr

\* json.loads(s): one value, whitespace around it, nothing after it.
JsonLoads(s) ==
    LET v == JsonValue(s, SkipWs(s, 1), 0)
    IN  IF v.st # "ok" THEN v
        ELSE IF SkipWs(s, v.next) <= Len(s) THEN JsonErr
        ELSE v

\* Lines 43-49: lists are rebuilt, every other value is returned as it is
\* (json.loads yields no tuple).
RECURSIVE convert_tuples(_)
convert_tuples(obj) ==
    IF obj.t = "list"
      THEN [t |-> "list",
            items |-> [i \in 1..Len(obj.items) |-> convert_tuples(obj.items[i])]]
      ELSE obj

\* x == y of Python on two parsed values: numbers by value (an int equals
\* the float of the same value), nan unequal to everything, lists by length
\* and elements.  An element pair is equal also when it is one object, which
\* json's NaN constant is (PyObject_RichCompareBool).
RECURSIVE JsonEq(_, _)
JsonEq(x, y) ==
    IF x.t = "list" /\ y.t = "list"
      THEN /\ Len(x.items) = Len(y.items)
           /\ \A i \in 1..Len(x.items) :
                \/ (x.items[i].t = "nan" /\ y.items[i].t = "nan")
                \/ JsonEq(x.items[i], y.items[i])
    ELSE IF x.t \in {"int", "float"} /\ y.t \in {"int", "float"}
      THEN Scaled(x, y).a = Scaled(x, y).b
    ELSE FALSE

\* The digits of a fraction without its trailing zeros (one digit at least).
RECURSIVE FracDigits(_, _)
FracDigits(coef, scale) ==
    IF scale > 1 /\ coef % 10 = 0 THEN FracDigits(coef \div 10, scale - 1)
    ELSE LET d == IntToStr(coef)
         IN  [i \in 1..(scale - Len(d)) |-> "0"] \o d

RECURSIVE JoinItems(_, _)

\* str(obj) of a parsed value: repr of an int, of a float (shortest digits,
\* fixed notation for the model's magnitudes), of nan, of a list.
RECURSIVE PyRepr(_)
PyRepr(obj) ==
    IF obj.t = "int" THEN IntToStr(obj.coef)
    ELSE IF obj.t = "float"
      THEN IntToStr(obj.coef \div Pow10(obj.scale)) \o <<".">>
               \o FracDigits(obj.coef % Pow10(obj.scale), obj.scale)
    ELSE IF obj.t = "nan" THEN <<"n", "a", "n">>
    ELSE <<"[">> \o JoinItems(obj.items, 1) \o <<"]">>

JoinItems(items, i) ==
    IF i > Len(items) THEN <<>>
    ELSE PyRepr(items[i])
             \o (IF i < Len(items) THEN <<",", " ">> ELSE <<>>)
             \o JoinItems(items, i + 1)

-----------------------------------------------------------------------------
(* try_json_comparison                                                     *)

NotValidJson ==
    <<"N", "o", "t", " ", "v", "a", "l", "i", "d", " ", "J", "S", "O", "N", 
      " ", "f", "o", "r", "m", "a", "t">>

JsonDontMatch ==
    <<"J", "S", "O", "N", " ", "o", "b", "j", "e", "c", "t", "s", " ", "d", 
      "o", "n", "'", "t", " ", "m", "a", "t", "c", "h", ":", " ">>

NeqSep ==
    <<" ", "!", "=", " ">>

NoExc == "none"

\* Lines 30-58.  exc is the exception that leaves the function: the handler
\* of line 57 catches json.JSONDecodeError and ValueError only, so the
\* RecursionError of json.loads passes through it.  The prediction is
\* parsed first, and the expected text only if that succeeded.
try_json_comparison(p, e) ==
    LET pred == JsonLoads(Strip(p))
        exp == JsonLoads(Strip(e))
        pred_obj == IF pred.val.t = "list" /\ Len(pred.val.items) > 0
                      THEN convert_tuples(pred.val) ELSE pred.val
    IN  IF pred.st = "rec" THEN [exc |-> "RecursionError", match |-> FALSE, msg |-> <<>>]
        ELSE IF pred.st = "err" THEN [exc |-> NoExc, match |-> FALSE, msg |-> NotValidJson]
        ELSE IF exp.st = "rec" THEN [exc |-> "RecursionError", match |-> FALSE, msg |-> <<>>]
        ELSE IF exp.st = "err" THEN [exc |-> NoExc, match |-> FALSE, msg |-> NotValidJson]
        ELSE IF JsonEq(pred_obj, exp.val) THEN [exc |-> NoExc, match |-> TRUE, msg |-> <<>>]
        ELSE [exc |-> NoExc, match |-> FALSE,
              msg |-> JsonDontMatch
                        \o truncate_output(StrVal(PyRepr(pred_obj)), DefaultLength)
                        \o NeqSep
                        \o truncate_output(StrVal(PyRepr(exp.val)), DefaultLength)]

-----------------------------------------------------------------------------
(* enhanced_output_comparison                                              *)

LengthMismatchHead ==
    <<"W", "r", "o", "n", "g", " ", "a", "n", "s", "w", "e", "r", ":", " ", 
      "m", "i", "s", "m", "a", "t", "c", "h", "e", "d", " ", "o", "u", "t", 
      "p", "u", "t", " ", "l", "e", "n", "g", "t", "h", ".", " ", "E", "x", 
      "p", "e", "c", "t", "e", "d", " ">>

LinesGot ==
    <<" ", "l", "i", "n", "e", "s", ",", " ", "g", "o", "t", " ">>

LinesTail ==
    <<" ", "l", "i", "n", "e", "s">>

WrongAnswerAtLine ==
    <<"W", "r", "o", "n", "g", " ", "a", "n", "s", "w", "e", "r", " ", "a", 
      "t", " ", "l", "i", "n", "e", " ">>

ColonSep ==
    <<":", " ">>

ComparisonFailed ==
    <<"C", "o", "m", "p", "a", "r", "i", "s", "o", "n", " ", "f", "a", "i", 
      "l", "e", "d", ":", " ">>

WarningHead ==
    <<"E", "n", "h", "a", "n", "c", "e", "d", " ", "c", "o", "m", "p", "a", 
      "r", "i", "s", "o", "n", " ", "f", "a", "i", "l", "e", "d", ",", " ", 
      "f", "a", "l", "l", "i", "n", "g", " ", "b", "a", "c", "k", " ", "t", 
      "o", " ", "s", "i", "m", "p", "l", "e", " ", "c", "o", "m", "p", "a", 
      "r", "i", "s", "o", "n", ":", " ">>

InvalidOperationText ==
    <<"[", "<", "c", "l", "a", "s", "s", " ", "'", "d", "e", "c", "i", "m", 
      "a", "l", ".", "I", "n", "v", "a", "l", "i", "d", "O", "p", "e", "r", 
      "a", "t", "i", "o", "n", "'", ">", "]">>

\* Lines 24-27.
get_stripped_lines(val) ==
    LET pieces == SplitNewline(Strip(val))
    IN  [i \in 1..Len(pieces) |-> Strip(pieces[i])]

\* The message of line 91.
LengthMismatch(nexp, npred) ==
    LengthMismatchHead \o IntToStr(nexp) \o LinesGot \o IntToStr(npred) \o LinesTail

\* The message of lines 119 and 122.
WrongAnswer(idx, pred_line, exp_line) ==
    WrongAnswerAtLine \o IntToStr(idx) \o ColonSep
        \o truncate_output(StrVal(pred_line), DefaultLength) \o NeqSep
        \o truncate_output(StrVal(exp_line), DefaultLength)

\* Lines 109-117: the tolerance check; ImportError (no numpy) and the
\* ValueError of float() both end in "pass".
WithinTolerance(dp, de, np) ==
    /\ np
    /\ \A i \in 1..Len(dp) : Float(dp[i]).ok
    /\ \A i \in 1..Len(de) : Float(de[i]).ok
    /\ Len(dp) = Len(de)
    /\ AllClose([i \in 1..Len(dp) |-> Float(dp[i])],
                [i \in 1..Len(de) |-> Float(de[i])])

\* compare_line without the exact test of line 96.
compare_line_no_exact(pred_line, exp_line, np) ==
    LET cp == convert_line_to_decimals(pred_line)
        ce == convert_line_to_decimals(exp_line)
        eq == DecimalListEq(cp.decimals, ce.decimals)
    IN  IF cp.success /\ ce.success
          THEN IF eq = "raise" THEN "raise"
               ELSE IF eq = "true" THEN "continue"
               ELSE IF WithinTolerance(cp.decimals, ce.decimals, np) THEN "continue"
               ELSE "mismatch"
        ELSE "mismatch"

\* Lines 95-122, one iteration of the loop: "continue", "mismatch" (the
\* return of line 119 or 122) or "raise" (InvalidOperation out of the list
\* comparison of line 105, which no inner handler covers).
compare_line(pred_line, exp_line, np) ==
    LET cp == convert_line_to_decimals(pred_line)
        ce == convert_line_to_decimals(exp_line)
        eq == DecimalListEq(cp.decimals, ce.decimals)
    IN  IF pred_line = exp_line THEN "continue"
        ELSE IF cp.success /\ ce.success
          THEN IF eq = "raise" THEN "raise"
               ELSE IF eq = "true" THEN "continue"
               ELSE IF WithinTolerance(cp.decimals, ce.decimals, np) THEN "continue"
               ELSE "mismatch"
        ELSE "mismatch"

ExcText(exc) == IF exc = "InvalidOperation" THEN InvalidOperationText ELSE <<>>

NoReturn == [returned |-> FALSE, matched |-> FALSE, message |-> <<>>]

Return(m, msg) == [returned |-> TRUE, matched |-> m, message |-> msg]

\* FallbackResult with the test of its conditional expression inverted.
FallbackResult_inverted(p, e, exc) ==
    Return(Strip(p) = Strip(e),
           IF Strip(p) = Strip(e) THEN ComparisonFailed \o ExcText(exc) ELSE <<>>)

\* Line 131.
FallbackResult(p, e, exc) ==
    Return(Strip(p) = Strip(e),
           IF Strip(p) # Strip(e) THEN ComparisonFailed \o ExcText(exc) ELSE <<>>)

\* Line 130.
WarningText(exc) == WarningHead \o ExcText(exc)

\* log_warning without the test of line 129.
log_warning_always(lg, recorded, exc) == Append(recorded, WarningText(exc))

\* Lines 129-130: the warning goes to the sink if one was supplied.
log_warning(lg, recorded, exc) ==
    IF lg THEN Append(recorded, WarningText(exc)) ELSE recorded

\* exact_match without the strip() of lines 73-74.
exact_match_unstripped(p, e) == p = e

\* Lines 73-76: the test of the exact strategy.
exact_match(p, e) == Strip(p) = Strip(e)

-----------------------------------------------------------------------------
(* The texts the comparator is called with.                                *)

Rep(c, n) == [i \in 1..n |-> c]

\* A JSON array nested k deep, written without and with inner whitespace.
Nested(k) == Rep("[", k) \o <<"1">> \o Rep("]", k)

NestedSpaced(k) == Rep("[", k) \o <<" ", "1">> \o Rep("]", k)

\* n lines, all "a" but the last.
RECURSIVE ManyLines(_, _)
ManyLines(n, last) ==
    IF n = 1 THEN <<last>> ELSE <<"a", "\n">> \o ManyLines(n - 1, last)

\* One line of n characters, all "a" but the last.
LongLine(n, last) == Rep("a", n - 1) \o <<last>>

BaseInputs ==
    { <<>>,
      <<"a">>,
      <<" ", "a", "\n">>,
      <<"b">>,
      <<"1">>,
      <<"1", ".", "0">>,
      <<"0", "1">>,
      <<"2">>,
      <<"1", " ", "2">>,
      <<"1", " ", " ", "2">>,
      <<"1", "\n", "2">>,
      <<"1", ".", "0", "\n", "2">>,
      <<"1", "\n", "\n", "2">>,
      <<"a", "\n", "2">>,
      <<"1", "\n", "a">>,
      <<"1", "0", "0", "0", "0", "0">>,
      <<"1", "0", "0", "0", "0", "1">>,
      <<"N", "a", "N">>,
      <<"s", "N", "a", "N">>,
      <<"1", " ", "s", "N", "a", "N">>,
      <<"1", ".", "0", " ", "s", "N", "a", "N">>,
      <<"2", " ", "s", "N", "a", "N">>,
      <<"[", "1", ",", "2", "]">>,
      <<"[", "1", ",", " ", "2", "]">>,
      <<"[", "2", ",", "1", "]">>,
      <<"[", "1", ".", "0", ",", "2", "]">>,
      <<"[", "]">>,
      <<"[", "1", ",", "2">>,
      <<"[", "N", "a", "N", "]">>,
      <<"[", " ", "N", "a", "N", "]">> }

Inputs ==
    BaseInputs
      \cup {Nested(k) : k \in 1..MaxNest}
      \cup {NestedSpaced(k) : k \in 1..MaxNest}
      \cup {Rep("[", MaxNest)}
      \cup {ManyLines(MaxLines, "a"), ManyLines(MaxLines, "b"),
            ManyLines(MaxLines - 1, "a")}
      \cup {LongLine(LongLen, "a"), LongLine(LongLen, "b"),
            LongLine(DefaultLength + 1, "a")}

-----------------------------------------------------------------------------
(* The calls of enhanced_output_comparison, one action per step.           *)

Init ==
    /\ prediction = <<>>
    /\ expected = <<>>
    /\ logger = FALSE
    /\ np_available \in BOOLEAN
    /\ pc = "idle"
    /\ line_idx = 0
    /\ json_error = <<>>
    /\ result = NoReturn
    /\ raised = NoExc
    /\ pending = NoExc
    /\ trace = <<>>
    /\ examined = <<>>
    /\ sink = <<>>
    /\ first = NoReturn
    /\ t_s = StrVal(<<>>)
    /\ t_length = 0
    /\ t_out = <<>>
    /\ t_pc = "off"

\* Line 61: a caller enters the function.
Call(p, e, lg) ==
    /\ pc = "idle"
    /\ prediction' = p
    /\ expected' = e
    /\ logger' = lg
    /\ pc' = "exact"
    /\ UNCHANGED <<np_available, line_idx, json_error, result, raised,
                   pending, trace, examined, sink, first, truncVars>>

\* The caller calls again with the same two texts (and any sink).  first
\* remembers what the first call of such a run returned.
CallAgain(lg) ==
    /\ pc \in {"done", "raised"}
    /\ logger' = lg
    /\ pc' = "exact"
    /\ line_idx' = 0
    /\ json_error' = <<>>
    /\ result' = NoReturn
    /\ raised' = NoExc
    /\ pending' = NoExc
    /\ trace' = <<>>
    /\ examined' = <<>>
    /\ sink' = <<>>
    /\ first' = IF first.returned THEN first ELSE result
    /\ UNCHANGED <<prediction, expected, np_available, truncVars>>

\* The caller is done with these texts: nothing of the call remains.
Forget ==
    /\ pc \in {"done", "raised"}
    /\ prediction' = <<>>
    /\ expected' = <<>>
    /\ logger' = FALSE
    /\ pc' = "idle"
    /\ line_idx' = 0
    /\ json_error' = <<>>
    /\ result' = NoReturn
    /\ raised' = NoExc
    /\ pending' = NoExc
    /\ trace' = <<>>
    /\ examined' = <<>>
    /\ sink' = <<>>
    /\ first' = NoReturn
    /\ UNCHANGED <<np_available, truncVars>>

\* Lines 72-77.
ExactStrategy ==
    /\ pc = "exact"
    /\ trace' = Append(trace, "exact")
    /\ IF exact_match(prediction, expected)
         THEN result' = Return(TRUE, <<>>) /\ pc' = "done"
         ELSE result' = result /\ pc' = "json"
    /\ UNCHANGED <<prediction, expected, logger, np_available, line_idx,
                   json_error, raised, pending, examined, sink, first, truncVars>>

\* Lines 79-82.  The call of line 80 stands outside the try of line 85.
JsonStrategy ==
    /\ pc = "json"
    /\ trace' = Append(trace, "json")
    /\ LET r == try_json_comparison(prediction, expected)
       IN  IF r.exc # NoExc
             THEN raised' = r.exc /\ pc' = "raised"
                  /\ UNCHANGED <<result, json_error>>
           ELSE IF r.match
             THEN result' = Return(TRUE, <<>>) /\ pc' = "done"
                  /\ json_error' = r.msg /\ raised' = raised
           ELSE json_error' = r.msg /\ pc' = "lines"
                /\ UNCHANGED <<result, raised>>
    /\ UNCHANGED <<prediction, expected, logger, np_available, line_idx,
                   pending, examined, sink, first, truncVars>>

\* Lines 85-91.
CountLines ==
    /\ pc = "lines"
    /\ trace' = Append(trace, "lines")
    /\ LET npred == Len(get_stripped_lines(prediction))
           nexp == Len(get_stripped_lines(expected))
       IN  IF npred # nexp
             THEN result' = Return(FALSE, LengthMismatch(nexp, npred))
                  /\ pc' = "done"
             ELSE result' = result /\ pc' = "loop"
    /\ line_idx' = 0
    /\ UNCHANGED <<prediction, expected, logger, np_available, json_error,
                   raised, pending, examined, sink, first, truncVars>>

\* Lines 94-122: the iteration for line_idx.
CompareLine ==
    /\ pc = "loop"
    /\ line_idx < Len(get_stripped_lines(prediction))
    /\ examined' = Append(examined, line_idx)
    /\ LET pred_line == get_stripped_lines(prediction)[line_idx + 1]
           exp_line == get_stripped_lines(expected)[line_idx + 1]
           out == compare_line(pred_line, exp_line, np_available)
       IN  IF out = "continue"
             THEN line_idx' = line_idx + 1
                  /\ UNCHANGED <<pc, result, pending>>
           ELSE IF out = "mismatch"
             THEN result' = Return(FALSE, WrongAnswer(line_idx, pred_line, exp_line))
                  /\ pc' = "done"
                  /\ UNCHANGED <<line_idx, pending>>
           ELSE pending' = "InvalidOperation" /\ pc' = "except"
                /\ UNCHANGED <<line_idx, result>>
    /\ UNCHANGED <<prediction, expected, logger, np_available, json_error,
                   raised, trace, sink, first, truncVars>>

\* Lines 124-125: the loop ran to its end.
AllLinesMatched ==
    /\ pc = "loop"
    /\ line_idx = Len(get_stripped_lines(prediction))
    /\ result' = Return(TRUE, <<>>)
    /\ pc' = "done"
    /\ UNCHANGED <<prediction, expected, logger, np_available, line_idx,
                   json_error, raised, pending, trace, examined, sink, first,
                   truncVars>>

\* Lines 127-131: the handler of the line by line strategy.
Fallback ==
    /\ pc = "except"
    /\ sink' = log_warning(logger, sink, pending)
    /\ result' = FallbackResult(prediction, expected, pending)
    /\ pc' = "done"
    /\ trace' = Append(trace, "fallback")
    /\ UNCHANGED <<prediction, expected, logger, np_available, line_idx,
                   json_error, raised, pending, examined, first, truncVars>>

Next ==
    \/ \E p \in Inputs, e \in Inputs, lg \in BOOLEAN : Call(p, e, lg)
    \/ \E lg \in BOOLEAN : CallAgain(lg)
    \/ Forget
    \/ ExactStrategy
    \/ JsonStrategy
    \/ CountLines
    \/ CompareLine
    \/ AllLinesMatched
    \/ Fallback

Spec == Init /\ [][Next]_vars

-----------------------------------------------------------------------------
(* The calls of truncate_output on its own.                                *)

\* A value of n characters that names its positions, so that the head and
\* the tail of a result can be told apart.
Pattern(n) == [i \in 1..n |-> Digits[(i % 10) + 1]]

TruncValues ==
    {StrVal(Pattern(n)) : n \in 0..MaxValLen} \cup {IntVal(n) : n \in {0, 7, 1234567}}

Thresholds == (0..MaxThreshold) \cup {DefaultLength}

InitTrunc ==
    /\ prediction = <<>>
    /\ expected = <<>>
    /\ logger = FALSE
    /\ np_available = FALSE
    /\ pc = "off"
    /\ line_idx = 0
    /\ json_error = <<>>
    /\ result = NoReturn
    /\ raised = NoExc
    /\ pending = NoExc
    /\ trace = <<>>
    /\ examined = <<>>
    /\ sink = <<>>
    /\ first = NoReturn
    /\ t_s \in TruncValues
    /\ t_length \in Thresholds
    /\ t_out = <<>>
    /\ t_pc = "call"

\* Lines 4-12.
TruncateOutput ==
    /\ t_pc = "call"
    /\ t_out' = truncate_output(t_s, t_length)
    /\ t_pc' = "done"
    /\ UNCHANGED <<t_s, t_length, cmpVars>>

NextTrunc == TruncateOutput

SpecTrunc == InitTrunc /\ [][NextTrunc]_vars

-----------------------------------------------------------------------------
(* Properties.                                                             *)

InTrace(x) == \E i \in 1..Len(trace) : trace[i] = x

Finished == pc \in {"done", "raised"}

\* The two texts are equal once leading and trailing whitespace is removed.
TrimEqual == Strip(prediction) = Strip(expected)

\* The JSON strategy was run and produced the match of line 82.
JsonMatched == result.returned /\ result.matched /\ trace = <<"exact", "json">>

\* Newline-separated pieces of the trimmed text.
LineCount(s) ==
    LET t == Strip(s) IN Cardinality({i \in 1..Len(t) : t[i] = "\n"}) + 1

\* 0, 1, ..., n - 1.
UpTo(n) == [i \in 1..n |-> i - 1]

\* C1: enhanced_output_comparison never raises to its caller: whatever
\* fails inside a strategy, the call ends by returning a pair.
C1_NeverRaises == pc # "raised" /\ raised = NoExc

\* C2: two texts that are equal after trimming give exactly (true, ""),
\* decided by the exact strategy before any other strategy is attempted.
C2_ExactDecides ==
    (pc \notin {"idle", "exact"} /\ TrimEqual)
        => (pc = "done" /\ result = Return(TRUE, <<>>) /\ trace = <<"exact">>)

C2_Witness ==
    pc = "done" /\ TrimEqual /\ prediction # expected /\ result = Return(TRUE, <<>>)

\* C3: on every return path the message is empty if and only if matched
\* is true.
C3_EmptyIffMatched ==
    result.returned => ((result.message = <<>>) <=> result.matched)

C3_Witness ==
    pc = "done" /\ InTrace("fallback") /\ ~result.matched /\ result.message # <<>>

\* C4: when neither the exact nor the JSON strategy matches and the line
\* counts differ, the call returns matched = false without comparing a line
\* pair, the message giving the expected text's count as "Expected" and the
\* prediction's as "got".
C4_LineCountMismatch ==
    (Finished /\ ~TrimEqual /\ ~JsonMatched
        /\ LineCount(prediction) # LineCount(expected))
        => /\ result = Return(FALSE, LengthMismatch(LineCount(expected),
                                                     LineCount(prediction)))
           /\ examined = <<>>

\* The statement of C4 for the calls whose JSON strategy returned.
LineCountMismatchAfterJson ==
    (pc = "done" /\ InTrace("lines")
        /\ LineCount(prediction) # LineCount(expected))
        => /\ result = Return(FALSE, LengthMismatch(LineCount(expected),
                                                     LineCount(prediction)))
           /\ examined = <<>>

\* Decimal digits of the largest line number or line count: a str holds at
\* most sys.maxsize = 2^63 - 1 characters.
MaxIndexDigits == 19

\* The longest text truncate_output returns under the default threshold.
MaxTruncatedLen == DefaultLength + Len(Marker)

\* The longest message: the one of lines 119 and 122.
MessageBound ==
    Len(WrongAnswerAtLine) + MaxIndexDigits + Len(ColonSep)
        + MaxTruncatedLen + Len(NeqSep) + MaxTruncatedLen

\* C5: there is a fixed bound, the same for all inputs, on the length of
\* the message of every return path.
C5_MessageBounded == result.returned => Len(result.message) <= MessageBound

C5_Witness ==
    /\ pc = "done" /\ ~result.matched
    /\ Len(Strip(prediction)) > MaxTruncatedLen
    /\ Len(Strip(expected)) > MaxTruncatedLen
    /\ LineCount(prediction) = 1 /\ LineCount(expected) = 1
    /\ Len(result.message) < Len(Strip(prediction)) + Len(Strip(expected))

\* C6 as stated, for the default threshold: a value longer than the
\* threshold comes back strictly shorter than it was, a value not longer
\* comes back unchanged.
C6_ShorterThanOriginal ==
    (t_pc = "done" /\ t_length = DefaultLength)
        => IF Len(PyStr(t_s)) > t_length
             THEN Len(t_out) < Len(PyStr(t_s))
             ELSE t_out = PyStr(t_s)

\* C6, amended: a value longer than the threshold comes back as a head of
\* the value, the marker and a tail of the value, threshold + 18 characters
\* in all for a threshold of 1 or more (the value's length + 18 for the
\* threshold 0), which is shorter than the value only if the value is
\* longer than threshold + 18; a value not longer comes back unchanged.
C6_LengthAfterTruncation ==
    t_pc = "done"
        => LET s == PyStr(t_s)
               half == t_length \div 2
               tail == Len(t_out) - half - Len(Marker)
           IN  IF Len(s) > t_length
                 THEN /\ Len(t_out) = Len(Marker)
                                        + (IF t_length = 0 THEN Len(s) ELSE t_length)
                      /\ SubSeq(t_out, 1, half) = SubSeq(s, 1, half)
                      /\ SubSeq(t_out, half + 1, half + Len(Marker)) = Marker
                      /\ SubSeq(t_out, half + Len(Marker) + 1, Len(t_out))
                           = SubSeq(s, Len(s) - tail + 1, Len(s))
                      /\ (Len(t_out) < Len(s))
                           <=> (t_length >= 1 /\ Len(s) > t_length + Len(Marker))
                 ELSE t_out = s

C6_Witness ==
    /\ t_pc = "done" /\ t_length = DefaultLength
    /\ Len(PyStr(t_s)) = DefaultLength + 1
    /\ Len(t_out) > Len(PyStr(t_s))

\* C7: the only effect of a call is the warning the sink records, on the
\* fallback path only, once, and not without a sink; what a call returns is
\* what the first call with the same two texts returned, whatever sink
\* either call was given.
C7_OnlySinkEffect ==
    /\ Len(sink) <= 1
    /\ sink # <<>> => (logger /\ InTrace("fallback"))
    /\ (InTrace("fallback") /\ logger) => sink = <<WarningText(pending)>>
    /\ (first.returned /\ result.returned) => result = first

C7_Witness ==
    /\ pc = "done" /\ first.returned /\ result = first
    /\ InTrace("fallback") /\ logger /\ Len(sink) = 1

StrategyOrder == <<"exact", "json", "lines", "fallback">>

\* C8: the strategies run in the order exact, JSON, line by line; a JSON
\* strategy that does not match is never final: control goes on to the line
\* by line strategy, and the message returned is not the JSON strategy's.
C8_JsonFailureNotFinal ==
    /\ \A i \in 1..Len(trace) : trace[i] = StrategyOrder[i]
    /\ (Finished /\ InTrace("json") /\ ~JsonMatched) => InTrace("lines")
    /\ (result.returned /\ json_error # <<>>) => result.message # json_error

\* The statement of C8 for the calls whose JSON strategy returned.
JsonFailureNotFinalAfterJson ==
    /\ \A i \in 1..Len(trace) : trace[i] = StrategyOrder[i]
    /\ (pc = "done" /\ InTrace("json") /\ ~JsonMatched) => InTrace("lines")
    /\ (result.returned /\ json_error # <<>>) => result.message # json_error

\* Both sequences hold numbers only and are equal number by number.
ExactlyEqual(xs, ys) ==
    /\ Len(xs) = Len(ys)
    /\ \A i \in 1..Len(xs) :
         /\ xs[i].kind = "num" /\ ys[i].kind = "num"
         /\ Scaled(xs[i], ys[i]).a = Scaled(xs[i], ys[i]).b

\* Both sequences have one length and are close number by number.
Tolerant(xs, ys) ==
    /\ Len(xs) = Len(ys)
    /\ \A i \in 1..Len(xs) :
         /\ xs[i].kind # "sNaN" /\ ys[i].kind # "sNaN"
         /\ IsClose(Float(xs[i]), Float(ys[i]))

\* The rule of C9 for one pair of stripped lines.
PairPasses(pl, el) ==
    LET cp == convert_line_to_decimals(pl)
        ce == convert_line_to_decimals(el)
    IN  \/ pl = el
        \/ /\ cp.success /\ ce.success
           /\ ExactlyEqual(cp.decimals, ce.decimals)
                \/ Tolerant(cp.decimals, ce.decimals)

\* C9 as stated: with equal line counts the pairs are examined in order of
\* index; the result is matched = true iff every pair passes, else matched =
\* false with the message of the smallest index that does not pass, and no
\* later pair is examined.
C9_LineByLine ==
    LET P == get_stripped_lines(prediction)
        E == get_stripped_lines(expected)
        failing == {i \in 0..(Len(P) - 1) : ~PairPasses(P[i + 1], E[i + 1])}
    IN  (pc = "done" /\ InTrace("lines") /\ Len(P) = Len(E))
            => IF failing = {}
                 THEN result = Return(TRUE, <<>>) /\ examined = UpTo(Len(P))
                 ELSE LET k == CHOOSE i \in failing : \A j \in failing : i <= j
                      IN  /\ result = Return(FALSE, WrongAnswer(k, P[k + 1], E[k + 1]))
                          /\ examined = UpTo(k + 1)

\* The comparison of the two decimal sequences raises: they have one length
\* and a signaling NaN stands at the first position where they are not
\* equal numbers.
PairRaises(pl, el) ==
    LET cp == convert_line_to_decimals(pl)
        ce == convert_line_to_decimals(el)
        xs == cp.decimals
        ys == ce.decimals
    IN  /\ pl # el /\ cp.success /\ ce.success /\ Len(xs) = Len(ys)
        /\ \E i \in 1..Len(xs) :
             /\ xs[i].kind = "sNaN" \/ ys[i].kind = "sNaN"
             /\ \A j \in 1..(i - 1) : ExactlyEqual(<<xs[j]>>, <<ys[j]>>)

\* The rule of C9 with the tolerance check at work only where numpy can be
\* imported.
PairPassesAmended(pl, el) ==
    LET cp == convert_line_to_decimals(pl)
        ce == convert_line_to_decimals(el)
    IN  \/ pl = el
        \/ /\ cp.success /\ ce.success
           /\ ExactlyEqual(cp.decimals, ce.decimals)
                \/ (np_available /\ Tolerant(cp.decimals, ce.decimals))

\* C9, amended: the tolerance counts only where numpy can be imported, and
\* at the smallest index that does not pass the result is the line's
\* mismatch message unless the comparison of that pair raises, and then it
\* is the fallback's (false, "Comparison failed: ..."); the pairs are
\* examined in order of index and none after that index.
C9_LineByLineAmended ==
    LET P == get_stripped_lines(prediction)
        E == get_stripped_lines(expected)
        failing == {i \in 0..(Len(P) - 1) : ~PairPassesAmended(P[i + 1], E[i + 1])}
    IN  /\ (pc = "loop") => (examined = UpTo(line_idx)
                              /\ \A i \in 0..(line_idx - 1) : i \notin failing)
        /\ (pc = "done" /\ InTrace("lines") /\ Len(P) = Len(E))
            => IF failing = {}
                 THEN result = Return(TRUE, <<>>) /\ examined = UpTo(Len(P))
                 ELSE LET k == CHOOSE i \in failing : \A j \in failing : i <= j
                      IN  /\ examined = UpTo(k + 1)
                          /\ result =
                               IF PairRaises(P[k + 1], E[k + 1])
                                 THEN Return(FALSE, ComparisonFailed
                                                      \o InvalidOperationText)
                                 ELSE Return(FALSE, WrongAnswer(k, P[k + 1], E[k + 1]))

C9_Witness ==
    /\ pc = "done" /\ InTrace("lines") /\ ~InTrace("fallback")
    /\ Len(examined) >= 2 /\ ~result.matched
    /\ get_stripped_lines(prediction)[1] # get_stripped_lines(expected)[1]

\* C10: a value longer than the threshold comes back as its first
\* floor(threshold / 2) characters, the marker, and its last
\* floor(threshold / 2) characters, for every threshold, odd or even
\* (stated here for the thresholds of 1 and more).
C10_FloorHalves ==
    (t_pc = "done" /\ t_length >= 1 /\ Len(PyStr(t_s)) > t_length)
        => LET s == PyStr(t_s)
               half == t_length \div 2
           IN  t_out = SubSeq(s, 1, half) \o Marker
                         \o SubSeq(s, Len(s) - half + 1, Len(s))

=============================================================================
